---- MODULE Spec2Model ----
(***************************************************************************)
(* xf::solver::getrf_nopivot (LU decomposition without pivoting) as a      *)
(* state machine.  One call is followed from LoopRead through the sweeps   *)
(* (LoopPivot, LoopDiv, one rowUpdate per lane) to LoopWrite.              *)
(*                                                                         *)
(* Values of type T are exact rationals <<p, q>> (q > 0, lowest terms)     *)
(* extended by the IEEE specials +Inf = <<1,0>>, -Inf = <<-1,0>> and       *)
(* NaN = <<0,0>> (zero is unsigned, so x/0 takes the sign of x).           *)
(* Indet = <<0,-1>> is an indeterminate value: the content of memory that  *)
(* was never initialised or lies outside the declared array.  It stands    *)
(* for every value the build may find there and absorbs all arithmetic.    *)
(***************************************************************************)
EXTENDS Integers, Sequences, FiniteSets, TLC

VARIABLES
    NRMAX, NCMAX, NCU,   \* template parameters of the instantiation
    m, n, lda, A, info,  \* arguments of the call; A is the linear buffer
    A0,                  \* ghost: A at call entry
    matA,                \* T matA[NCU][NRCU][NCMAX], by flat address
    pivot,               \* T pivot[NCU][NCMAX], by flat address
    s,                   \* sweep index of LoopSweeps
    a00,                 \* T a00 = pivot[0][s]
    lanes,               \* lanes whose rowUpdate of this sweep has returned
    pc,                  \* position in getrf_nopivot
    oob,                 \* ghost: an index outside the declared bounds was used
    negTrip,             \* ghost: nrows * ncols was negative in some rowUpdate
    zeroPivot,           \* ghost: LoopDiv divided by a00 = 0
    pivWritten,          \* ghost: pivot addresses written by LoopPivot this sweep
    pivRead,             \* ghost: pivot addresses read this sweep
    wrDiv,               \* ghost: matA addresses written by LoopDiv this sweep
    wr,                  \* ghost: lane -> matA addresses its rowUpdate wrote
    rowS,                \* ghost: row s of matA when sweep s was entered
    ref,                 \* ghost: matA of the same call run with NCU = 1
    refPivot             \* ghost: pivot of the same call run with NCU = 1

vars == <<NRMAX, NCMAX, NCU, m, n, lda, A, info, A0, matA, pivot, s, a00,
          lanes, pc, oob, negTrip, zeroPivot, pivWritten, pivRead, wrDiv, wr, rowS, ref, refPivot>>

params == <<NRMAX, NCMAX, NCU, m, n, lda, info, A0>>

(***************************************************************************)
(* Bounds of the model.                                                    *)
(***************************************************************************)
MaxNR == 3      \* NRMAX ranges over 1..MaxNR
MaxNC == 3      \* NCMAX ranges over 1..MaxNC
MaxNCU == 3     \* NCU ranges over 1..MaxNCU
MaxPad == 1     \* lda - n ranges over 0..MaxPad
MaxVal == 1     \* the patched input entry ranges over 0..MaxVal

(***************************************************************************)
(* Arithmetic of T.                                                        *)
(***************************************************************************)
Abs(x) == IF x < 0 THEN -x ELSE x

RECURSIVE GCD(_, _)
GCD(x, y) == IF y = 0 THEN x ELSE GCD(y, x % y)

Rat(p, q) ==
    LET g == GCD(Abs(p), Abs(q))
        sg == IF q < 0 THEN -1 ELSE 1
    IN  <<(sg * p) \div g, (sg * q) \div g>>

Zero == <<0, 1>>
One == <<1, 1>>
PInf == <<1, 0>>
NInf == <<-1, 0>>
NaN == <<0, 0>>
Indet == <<0, -1>>

IsFinite(v) == v[2] > 0
Sign(v) == IF v[1] > 0 THEN 1 ELSE IF v[1] < 0 THEN -1 ELSE 0
InfOf(sg) == IF sg > 0 THEN PInf ELSE NInf

Sub(x, y) ==
    IF x = Indet \/ y = Indet THEN Indet
    ELSE IF x = NaN \/ y = NaN THEN NaN
    ELSE IF ~IsFinite(x) THEN (IF x = y THEN NaN ELSE x)
    ELSE IF ~IsFinite(y) THEN <<-y[1], 0>>
    ELSE Rat(x[1] * y[2] - y[1] * x[2], x[2] * y[2])

Add(x, y) ==
    IF x = Indet \/ y = Indet THEN Indet
    ELSE IF x = NaN \/ y = NaN THEN NaN
    ELSE IF ~IsFinite(x) THEN (IF ~IsFinite(y) /\ x # y THEN NaN ELSE x)
    ELSE IF ~IsFinite(y) THEN y
    ELSE Rat(x[1] * y[2] + y[1] * x[2], x[2] * y[2])

Mul(x, y) ==
    IF x = Indet \/ y = Indet THEN Indet
    ELSE IF x = NaN \/ y = NaN THEN NaN
    ELSE IF ~IsFinite(x) \/ ~IsFinite(y)
         THEN (IF Sign(x) * Sign(y) = 0 THEN NaN ELSE InfOf(Sign(x) * Sign(y)))
    ELSE Rat(x[1] * y[1], x[2] * y[2])

Div(x, y) ==
    IF x = Indet \/ y = Indet THEN Indet
    ELSE IF x = NaN \/ y = NaN THEN NaN
    ELSE IF ~IsFinite(x)
         THEN (IF ~IsFinite(y) THEN NaN
               ELSE InfOf(Sign(x) * (IF Sign(y) < 0 THEN -1 ELSE 1)))
    ELSE IF ~IsFinite(y) THEN Zero
    ELSE IF y = Zero THEN (IF x = Zero THEN NaN ELSE InfOf(Sign(x)))
    ELSE Rat(x[1] * y[2], x[2] * y[1])

(***************************************************************************)
(* Layout of T A[NCU][NRCU][NCMAX] and T pivot[NCU][NCMAX].                *)
(***************************************************************************)
NRCUof(ncu) == (NRMAX + ncu - 1) \div ncu

Size(ncu) == ncu * NRCUof(ncu) * NCMAX

Addr(ncu, i, r, c) == (i * NRCUof(ncu) + r) * NCMAX + c

InBounds(ncu, i, r, c) ==
    /\ 0 <= i /\ i < ncu
    /\ 0 <= r /\ r < NRCUof(ncu)
    /\ 0 <= c /\ c < NCMAX

PAddr(i, k) == i * NCMAX + k

\* address of logical row r, column c (row r lives in lane r % NCU at r / NCU)
Cell(ncu, r, c) == Addr(ncu, r % ncu, r \div ncu, c)

LaneOf(ncu, a) == a \div (NRCUof(ncu) * NCMAX)
LocalOf(ncu, a) == (a \div NCMAX) % NRCUof(ncu)
ColOf(a) == a % NCMAX
RowOf(ncu, a) == LocalOf(ncu, a) * ncu + LaneOf(ncu, a)


(***************************************************************************)
(* Inputs of the call: an m x n integer matrix (a base pattern with one    *)
(* entry patched, or one of the two matrices the specification names),     *)
(* stored row-major with leading dimension lda in the linear buffer.       *)
(***************************************************************************)
Example3 == [rc \in (0..2) \X (0..2) |->
               <<<<4, 3, 2>>, <<2, 1, 1>>, <<1, 1, 1>>>>[rc[1] + 1][rc[2] + 1]]

Example2 == [rc \in (0..1) \X (0..1) |->
               <<<<4, 3>>, <<6, 3>>>>[rc[1] + 1][rc[2] + 1]]

\* every entry 1: singular from the second pivot on
Ones(mm, nn) == [rc \in (0..mm-1) \X (0..nn-1) |-> 1]

\* 2 on the diagonal, 1 elsewhere: every leading principal minor is nonzero
Diag(mm, nn) == [rc \in (0..mm-1) \X (0..nn-1) |-> IF rc[1] = rc[2] THEN 2 ELSE 1]

InputMats(mm, nn) ==
    {Ones(mm, nn)}
    \cup {[Diag(mm, nn) EXCEPT ![rc] = v] : rc \in (0..mm-1) \X (0..nn-1), v \in 0..MaxVal}
    \cup (IF mm = 3 /\ nn = 3 THEN {Example3} ELSE {})
    \cup (IF mm = 2 /\ nn = 2 THEN {Example2} ELSE {})

Filler == <<9, 1>>

Linear(M, mm, nn, ld) ==
    [k \in 0..(ld * mm - 1) |->
        IF k % ld < nn THEN <<M[<<k \div ld, k % ld>>], 1>> ELSE Filler]

(***************************************************************************)
(* The loops of getrf_nopivot and getrf_nopivot_core as functions of the   *)
(* buffers, for a lane count ncu.  Each loop comes with the indices it     *)
(* uses: <<i, r, c>> into A[NCU][NRCU][NCMAX], <<i, k>> into pivot.        *)
(***************************************************************************)
AllIndet(size) == [x \in 0..(size - 1) |-> Indet]

MatIdxOK(ncu, idxs) == \A x \in idxs : InBounds(ncu, x[1], x[2], x[3])

PivIdxOK(ncu, idxs) ==
    \A x \in idxs : 0 <= x[1] /\ x[1] < ncu /\ 0 <= x[2] /\ x[2] < NCMAX

\* LoopRead: matA[r % NCU][r / NCU][c] = A[lda * r + c]
LoopReadIdx(ncu) ==
    {<<r % ncu, r \div ncu, c>> : r \in 0..(m - 1), c \in 0..(n - 1)}

LoopRead(ncu, ext) ==
    [x \in 0..(Size(ncu) - 1) |->
        IF RowOf(ncu, x) < m /\ ColOf(x) < n
        THEN ext[(lda * RowOf(ncu, x)) + ColOf(x)]
        ELSE Indet]

\* LoopPivot: pivot[r][k] = A[s % NCU][s / NCU][k] for k = s..n-1, every r
LoopPivotMatIdx(ncu, st) == {<<st % ncu, st \div ncu, k>> : k \in st..(n - 1)}

LoopPivotPivIdx(ncu, st) == {<<r, k>> : r \in 0..(ncu - 1), k \in st..(n - 1)}

PivotWrites(ncu, st) == {PAddr(x[1], x[2]) : x \in LoopPivotPivIdx(ncu, st)}

LoopPivot(ncu, mem, st) ==
    [p \in 0..(ncu * NCMAX - 1) |->
        IF p \in PivotWrites(ncu, st)
        THEN mem[Addr(ncu, st % ncu, st \div ncu, p % NCMAX)]
        ELSE Indet]

\* T a00 = pivot[0][s]; beyond the array the value read is indeterminate
ReadA00(piv, st) == IF st < NCMAX THEN piv[PAddr(0, st)] ELSE Indet

\* LoopDiv: A[j % NCU][j / NCU][s] = A[j % NCU][j / NCU][s] / a00, j = s+1..m-1
LoopDivMatIdx(ncu, st) ==
    {<<j % ncu, j \div ncu, st>> : j \in (st + 1)..(m - 1)}

DivTargets(ncu, st) ==
    {Addr(ncu, x[1], x[2], x[3]) : x \in LoopDivMatIdx(ncu, st)}

\* A column index s >= NCMAX is undefined behaviour: the access either lands
\* on the flat address ("alias") or outside matA altogether ("miss").
UBWrite == {"alias", "miss"}

LoopDiv(ncu, mem, a, st, ub) ==
    IF st >= NCMAX /\ ub = "miss" THEN mem
    ELSE [x \in DOMAIN mem |->
            IF x \in DivTargets(ncu, st) THEN Div(mem[x], a) ELSE mem[x]]

\* LoopMat: rs = (i <= (s % NCU)) ? (s / NCU + 1) : (s / NCU)
Rs(ncu, i, st) == IF i <= st % ncu THEN st \div ncu + 1 ELSE st \div ncu
Re(ncu) == NRCUof(ncu) - 1
Ce == NCMAX - 1

\* rowUpdate: nrows = re - rs + 1, ncols = ce - cs
Nrows(ncu, i, st) == Re(ncu) - Rs(ncu, i, st) + 1
Ncols(st) == Ce - st

\* i < nrows * ncols compares as unsigned int: a negative product reads as
\* 2^32 + nrows * ncols, so the loop runs far past the lane's memory
Runaway(ncu, i, st) == Nrows(ncu, i, st) * Ncols(st) < 0

\* the trip count of a loop that stays inside the lane
TripCount(ncu, i, st) == Nrows(ncu, i, st) * Ncols(st)

\* the (r, c) of iteration k: r = k / ncols + rs, c = k % ncols + cs + 1;
\* of a runaway loop only the first iteration, r = rs, c = cs + 1, is listed
UpdIdx(ncu, i, st) ==
    IF Runaway(ncu, i, st) THEN {<<Rs(ncu, i, st), st + 1>>}
    ELSE {<<(k \div Ncols(st)) + Rs(ncu, i, st), (k % Ncols(st)) + st + 1>> :
            k \in 0..(TripCount(ncu, i, st) - 1)}

\* A[r][c] and A[r][cs] of every iteration
UpdMatIdx(ncu, i, st) ==
    {<<i, rc[1], rc[2]>> : rc \in UpdIdx(ncu, i, st)}
    \cup {<<i, rc[1], st>> : rc \in UpdIdx(ncu, i, st)}

\* T a00 = pivot[cs], then pivot[c] of every iteration
UpdPivIdx(ncu, i, st) ==
    {<<i, st>>} \cup {<<i, rc[2]>> : rc \in UpdIdx(ncu, i, st)}

UpdCells(ncu, i, st) ==
    IF Runaway(ncu, i, st) THEN {}
    ELSE {Addr(ncu, i, rc[1], rc[2]) : rc \in UpdIdx(ncu, i, st)}

LaneCells(ncu, i) == {x \in 0..(Size(ncu) - 1) : LaneOf(ncu, x) = i}

\* a sign slip in the update: A[r][c] + A[r][cs] * pivot[c]
MulSubBug(x, l, p) == Add(x, Mul(l, p))

\* A[r][c] = A[r][c] - A[r][cs] * pivot[c]
MulSub(x, l, p) == Sub(x, Mul(l, p))

\* The runaway loop is undefined behaviour: the call either dies ("crash")
\* or the addresses wrap inside the lane's memory and garble it ("wrap").
UBLoop == {"wrap", "crash"}

rowUpdate(ncu, mem, piv, i, st) ==
    IF Runaway(ncu, i, st)
    THEN [x \in DOMAIN mem |-> IF LaneOf(ncu, x) = i THEN Indet ELSE mem[x]]
    ELSE [x \in DOMAIN mem |->
            IF x \in UpdCells(ncu, i, st)
            THEN MulSub(mem[x], mem[Addr(ncu, i, LocalOf(ncu, x), st)],
                        piv[PAddr(i, ColOf(x))])
            ELSE mem[x]]

UpdPivReads(ncu, i, st) == {PAddr(x[1], x[2]) : x \in UpdPivIdx(ncu, i, st)}

UpdMatReads(ncu, i, st) ==
    {Addr(ncu, x[1], x[2], x[3]) : x \in UpdMatIdx(ncu, i, st)}

UpdWrites(ncu, i, st) ==
    IF Runaway(ncu, i, st) THEN LaneCells(ncu, i) ELSE UpdCells(ncu, i, st)

\* The stages of the run with a single lane (NCU = 1), which may have died.
Crashed == <<>>

RefPivot(mem, st) ==
    IF mem = Crashed THEN AllIndet(NCMAX) ELSE LoopPivot(1, mem, st)

RefDiv(mem, piv, st, ub) ==
    IF mem = Crashed THEN Crashed ELSE LoopDiv(1, mem, ReadA00(piv, st), st, ub)

RefUpdate(mem, piv, st, ub) ==
    IF mem = Crashed \/ (Runaway(1, 0, st) /\ ub = "crash") THEN Crashed
    ELSE rowUpdate(1, mem, piv, 0, st)

\* LoopWrite: A[r * lda + c] = matA[r % NCU][r / NCU][c]
LoopWrite(ncu, mem, ext) ==
    [k \in DOMAIN ext |->
        IF k % lda < n THEN mem[Cell(ncu, k \div lda, k % lda)] ELSE ext[k]]

(***************************************************************************)
(* The call.                                                               *)
(***************************************************************************)
Init ==
    /\ NRMAX \in 1..MaxNR
    /\ NCMAX \in 1..MaxNC
    /\ NCU \in 1..MaxNCU
    /\ m \in 1..NRMAX
    /\ n \in 1..NCMAX
    /\ lda \in n..(n + MaxPad)
    /\ info \in {0, 1}
    /\ A0 \in {Linear(M, m, n, lda) : M \in InputMats(m, n)}
    /\ A = A0
    /\ matA = AllIndet(Size(NCU))
    /\ pivot = AllIndet(NCU * NCMAX)
    /\ s = 0
    /\ a00 = Indet
    /\ lanes = {}
    /\ pc = "LoopRead"
    /\ oob = FALSE
    /\ negTrip = FALSE
    /\ zeroPivot = FALSE
    /\ pivWritten = {}
    /\ pivRead = {}
    /\ wrDiv = {}
    /\ wr = [i \in 0..(NCU - 1) |-> {}]
    /\ rowS = AllIndet(NCMAX)
    /\ ref = AllIndet(Size(1))
    /\ refPivot = AllIndet(NCMAX)

DoLoopRead ==
    /\ pc = "LoopRead"
    /\ matA' = LoopRead(NCU, A)
    /\ ref' = LoopRead(1, A)
    /\ oob' = (oob \/ ~MatIdxOK(NCU, LoopReadIdx(NCU)))
    /\ s' = 0
    /\ pc' = "LoopSweeps"
    /\ UNCHANGED <<params, A, pivot, a00, lanes, negTrip, zeroPivot,
                   pivWritten, pivRead, wrDiv, wr, rowS, refPivot>>

\* s < m - 1: the body is entered with a fresh, uninitialised pivot array
SweepEnter ==
    /\ pc = "LoopSweeps"
    /\ s < m - 1
    /\ pivot' = AllIndet(NCU * NCMAX)
    /\ pivWritten' = {}
    /\ pivRead' = {}
    /\ wrDiv' = {}
    /\ wr' = [i \in 0..(NCU - 1) |-> {}]
    /\ rowS' = [c \in 0..(NCMAX - 1) |-> matA[Cell(NCU, s, c)]]
    /\ lanes' = {}
    /\ pc' = "LoopPivot"
    /\ refPivot' = AllIndet(NCMAX)
    /\ UNCHANGED <<params, A, matA, s, a00, oob, negTrip, zeroPivot, ref>>

SweepExit ==
    /\ pc = "LoopSweeps"
    /\ ~(s < m - 1)
    /\ pc' = "LoopWrite"
    /\ UNCHANGED <<params, A, matA, pivot, s, a00, lanes, oob, negTrip,
                   zeroPivot, pivWritten, pivRead, wrDiv, wr, rowS, ref, refPivot>>

DoLoopPivot ==
    /\ pc = "LoopPivot"
    /\ pivot' = LoopPivot(NCU, matA, s)
    /\ pivWritten' = PivotWrites(NCU, s)
    /\ oob' = (oob \/ ~MatIdxOK(NCU, LoopPivotMatIdx(NCU, s))
                   \/ ~PivIdxOK(NCU, LoopPivotPivIdx(NCU, s)))
    /\ refPivot' = RefPivot(ref, s)
    /\ pc' = "LoopDiv"
    /\ UNCHANGED <<params, A, matA, s, a00, lanes, negTrip, zeroPivot,
                   pivRead, wrDiv, wr, rowS, ref>>

DoLoopDiv ==
    /\ pc = "LoopDiv"
    /\ a00' = ReadA00(pivot, s)
    /\ \E ub \in (IF s >= NCMAX THEN UBWrite ELSE {"alias"}) :
         matA' = LoopDiv(NCU, matA, a00', s, ub)
    /\ \E ub \in (IF s >= NCMAX THEN UBWrite ELSE {"alias"}) :
         ref' = RefDiv(ref, refPivot, s, ub)
    /\ pivRead' = pivRead \cup {PAddr(0, s)}
    /\ wrDiv' = DivTargets(NCU, s)
    /\ oob' = (oob \/ ~PivIdxOK(NCU, {<<0, s>>})
                   \/ ~MatIdxOK(NCU, LoopDivMatIdx(NCU, s)))
    /\ zeroPivot' = (zeroPivot \/ a00' = Zero)
    /\ pc' = "LoopMat"
    /\ UNCHANGED <<params, A, pivot, s, lanes, negTrip, pivWritten, wr, rowS,
                   refPivot>>

\* rowUpdate<T, NRCU, NCMAX>(A[i], pivot[i], rs, re, cs, ce) of lane i; the
\* unrolled lanes run in any order
DoRowUpdate(i) ==
    /\ pc = "LoopMat"
    /\ i \notin lanes
    /\ \E ub \in (IF Runaway(NCU, i, s) THEN UBLoop ELSE {"wrap"}) :
         IF Runaway(NCU, i, s) /\ ub = "crash"
         THEN /\ pc' = "crashed"
              /\ UNCHANGED <<matA, lanes>>
         ELSE /\ matA' = rowUpdate(NCU, matA, pivot, i, s)
              /\ lanes' = lanes \cup {i}
              /\ pc' = pc
    /\ pivRead' = pivRead \cup UpdPivReads(NCU, i, s)
    /\ wr' = [wr EXCEPT ![i] = UpdWrites(NCU, i, s)]
    /\ oob' = (oob \/ ~PivIdxOK(NCU, UpdPivIdx(NCU, i, s))
                   \/ ~MatIdxOK(NCU, UpdMatIdx(NCU, i, s)))
    /\ negTrip' = (negTrip \/ Nrows(NCU, i, s) * Ncols(s) < 0)
    /\ UNCHANGED <<params, A, pivot, s, a00, zeroPivot, pivWritten, wrDiv,
                   rowS, ref, refPivot>>

\* s++ once every lane has returned
EndSweep ==
    /\ pc = "LoopMat"
    /\ lanes = 0..(NCU - 1)
    /\ \E ub \in (IF Runaway(1, 0, s) THEN UBLoop ELSE {"wrap"}) :
         ref' = RefUpdate(ref, refPivot, s, ub)
    /\ s' = s + 1
    /\ pc' = "LoopSweeps"
    /\ UNCHANGED <<params, A, matA, pivot, a00, lanes, oob, negTrip, zeroPivot,
                   pivWritten, pivRead, wrDiv, wr, rowS, refPivot>>

DoLoopWrite ==
    /\ pc = "LoopWrite"
    /\ A' = LoopWrite(NCU, matA, A)
    /\ oob' = (oob \/ ~MatIdxOK(NCU, LoopReadIdx(NCU)))
    /\ pc' = "done"
    /\ UNCHANGED <<params, matA, pivot, s, a00, lanes, negTrip, zeroPivot,
                   pivWritten, pivRead, wrDiv, wr, rowS, ref, refPivot>>

Next ==
    \/ DoLoopRead
    \/ SweepEnter
    \/ DoLoopPivot
    \/ DoLoopDiv
    \/ \E i \in 0..(NCU - 1) : DoRowUpdate(i)
    \/ EndSweep
    \/ SweepExit
    \/ DoLoopWrite

Spec == Init /\ [][Next]_vars

\* the call keeps running until it returns or dies
FairSpec == Spec /\ WF_vars(Next)


(***************************************************************************)
(* What the caller sees, and the vocabulary of the properties.             *)
(***************************************************************************)
Rows == 0..(m - 1)
Cols == 0..(n - 1)
In(r, c) == A0[(r * lda) + c]
Out(r, c) == A[(r * lda) + c]
Returned == pc = "done"

\* the logical m x n matrix held by a buffer laid out for ncu lanes
Block(ncu, mem) == [rc \in Rows \X Cols |-> mem[Cell(ncu, rc[1], rc[2])]]

\* the sweep index stays inside the pivot array and the matrix columns
InRange == m <= NCMAX + 1

\* L (unit diagonal, not stored) and U as read off the returned block
K == IF m < n THEN m ELSE n
L(r, k) == IF k < r THEN Out(r, k) ELSE IF k = r THEN One ELSE Zero
U(k, c) == IF k <= c THEN Out(k, c) ELSE Zero

RECURSIVE Dot(_, _, _)
Dot(r, c, k) == IF k = 0 THEN Zero ELSE Add(Dot(r, c, k - 1), Mul(L(r, k - 1), U(k - 1, c)))

Reconstructs == \A r \in Rows, c \in Cols : Dot(r, c, K) = In(r, c)

\* leading principal minors of the (integer) input, by cofactor expansion
RECURSIVE DetFrom(_, _), DetSum(_, _, _)
DetFrom(r, cols) == IF cols = {} THEN 1 ELSE DetSum(r, cols, cols)
DetSum(r, cols, rest) ==
    IF rest = {} THEN 0
    ELSE LET c == CHOOSE x \in rest : TRUE
             sg == IF Cardinality({x \in cols : x < c}) % 2 = 0 THEN 1 ELSE -1
         IN  sg * In(r, c)[1] * DetFrom(r + 1, cols \ {c}) + DetSum(r, cols, rest \ {c})

Admissible == \A k \in 1..K : DetFrom(0, 0..(k - 1)) # 0

IsExample3 ==
    m = 3 /\ n = 3 /\ \A r \in Rows, c \in Cols : In(r, c) = <<Example3[<<r, c>>], 1>>

IsExample2 ==
    m = 2 /\ n = 2 /\ \A r \in Rows, c \in Cols : In(r, c) = <<Example2[<<r, c>>], 1>>

OutIs(rows) == \A r \in Rows, c \in Cols : Out(r, c) = rows[r + 1][c + 1]

(***************************************************************************)
(* C1: for an m x n input whose leading principal minors are all nonzero,  *)
(* the block written back holds L strictly below the diagonal and U on and *)
(* above it with L * U equal to the input, exactly.                        *)
(***************************************************************************)
C1Claim == (Returned /\ Admissible) => Reconstructs

\* the same, for the calls whose sweep index never leaves the arrays
C1InRange == (Returned /\ Admissible /\ InRange) => Reconstructs

C1InRangeWitness == Returned /\ Admissible /\ InRange /\ m = 3 /\ n = 3 /\ NCU = 2


(***************************************************************************)
(* C2 (as stated): for A = [[4,3,2],[2,1,1],[1,1,1]], m = n = 3, the       *)
(* returned buffer is [[4,3,2],[0.5,-0.5,0],[0.25,1,0]].                   *)
(***************************************************************************)
C2Stated ==
    (Returned /\ IsExample3) =>
        OutIs(<< <<<<4, 1>>, <<3, 1>>, <<2, 1>>>>,
                 <<<<1, 2>>, <<-1, 2>>, <<0, 1>>>>,
                 <<<<1, 4>>, <<1, 1>>, <<0, 1>>>> >>)

(***************************************************************************)
(* C2 (amended): for A = [[4,3,2],[2,1,1],[1,1,1]], m = n = 3, the         *)
(* returned buffer is [[4,3,2],[0.5,-0.5,0],[0.25,-0.5,0.5]], that is      *)
(* L = [[1,0,0],[0.5,1,0],[0.25,-0.5,1]], U = [[4,3,2],[0,-0.5,0],         *)
(* [0,0,0.5]]; no pivot is zero and L * U = A.                             *)
(***************************************************************************)
C2Amended ==
    (Returned /\ IsExample3) =>
        /\ OutIs(<< <<<<4, 1>>, <<3, 1>>, <<2, 1>>>>,
                    <<<<1, 2>>, <<-1, 2>>, <<0, 1>>>>,
                    <<<<1, 4>>, <<-1, 2>>, <<1, 2>>>> >>)
        /\ ~zeroPivot
        /\ Reconstructs

C2Witness == Returned /\ IsExample3 /\ NCU = 2 /\ lda = 4

(***************************************************************************)
(* C3: the m x n block is the same for every lane count: run side by side  *)
(* with the NCU = 1 run, the logical matrices are equal after every sweep  *)
(* and on return.  An indeterminate value is equal to nothing, itself      *)
(* included: two runs need not find the same garbage.                      *)
(***************************************************************************)
SameBlock ==
    /\ ref # Crashed
    /\ \A r \in Rows, c \in Cols :
         /\ matA[Cell(NCU, r, c)] = ref[Cell(1, r, c)]
         /\ matA[Cell(NCU, r, c)] # Indet

C3Claim == pc \in {"LoopSweeps", "LoopWrite", "done"} => SameBlock

C3InRange == (InRange /\ pc \in {"LoopSweeps", "LoopWrite", "done"}) => SameBlock

C3InRangeWitness == InRange /\ Returned /\ NCU = 3 /\ m = 2 /\ NRMAX = 2 /\ s = 1

(***************************************************************************)
(* C4: whenever the call returns with info = 0 the factorization was       *)
(* successful: no sweep divided by a zero pivot, and L * U = A.            *)
(***************************************************************************)
C4Claim == (Returned /\ info = 0) => (~zeroPivot /\ Reconstructs)


(***************************************************************************)
(* C5: the sweep index runs 0, 1, ..., m-2, each once and in order; within *)
(* a sweep the stages run EXTRACT (LoopPivot), DIVIDE (LoopDiv), UPDATE    *)
(* (rowUpdate on every lane), and the next sweep starts only after every   *)
(* lane has finished; exactly m-1 sweeps run; for m = 1 the output is the  *)
(* input; and every call reaches DONE.                                     *)
(***************************************************************************)
StageOrder ==
    /\ s' # s => (s' = s + 1 /\ pc = "LoopMat" /\ lanes = 0..(NCU - 1))
    /\ pc' # pc =>
         \/ pc = "LoopRead" /\ pc' = "LoopSweeps" /\ s' = 0
         \/ pc = "LoopSweeps" /\ pc' = "LoopPivot" /\ s <= m - 2
         \/ pc = "LoopPivot" /\ pc' = "LoopDiv"
         \/ pc = "LoopDiv" /\ pc' = "LoopMat" /\ lanes' = {}
         \/ pc = "LoopMat" /\ pc' = "LoopSweeps" /\ lanes = 0..(NCU - 1)
         \/ pc = "LoopSweeps" /\ pc' = "LoopWrite" /\ s = m - 1
         \/ pc = "LoopWrite" /\ pc' = "done" /\ (m = 1 => A' = A0)

C5Claim == [][StageOrder]_vars /\ <>Returned

\* the order alone, for the calls whose sweep index stays in range
C5OrderInRange == [][InRange => StageOrder]_vars

\* every call whose sweep index stays in range returns
C5InRange == InRange => <>Returned

(***************************************************************************)
(* C6: within a sweep, whatever the order of the lanes, lane i writes only *)
(* cells of rows r with r mod NCU = i and r > s, starting at the local     *)
(* offset that neither includes a row <= s nor skips an owned row > s; no  *)
(* two lanes write the same cell, no lane writes a cell another lane reads *)
(* in that sweep, and the lanes' updates commute.                          *)
(***************************************************************************)
OwnRowsOnly ==
    \A i \in 0..(NCU - 1) : \A x \in wr[i] :
        /\ x \in DOMAIN matA
        /\ RowOf(NCU, x) % NCU = i
        /\ RowOf(NCU, x) > s

StartOffsetExact ==
    \A i \in 0..(NCU - 1) :
        {r \in 0..Re(NCU) : r >= Rs(NCU, i, s)} = {r \in 0..Re(NCU) : r * NCU + i > s}

Disjoint ==
    \A i, j \in 0..(NCU - 1) :
        i # j => /\ wr[i] \cap wr[j] = {}
                 /\ wr[i] \cap UpdMatReads(NCU, j, s) = {}

Commute ==
    \A i, j \in (0..(NCU - 1)) \ lanes :
        rowUpdate(NCU, rowUpdate(NCU, matA, pivot, i, s), pivot, j, s)
            = rowUpdate(NCU, rowUpdate(NCU, matA, pivot, j, s), pivot, i, s)

LanePartition == OwnRowsOnly /\ StartOffsetExact /\ Disjoint /\ Commute

C6Claim == pc \in {"LoopMat", "crashed"} => LanePartition

C6InRange == (InRange /\ pc = "LoopMat") => LanePartition

C6InRangeWitness ==
    InRange /\ pc = "LoopMat" /\ NCU = 3 /\ lanes = {0, 2} /\ s = 1 /\ wr[2] # {}

(***************************************************************************)
(* C7: sweep s changes only the Divider cells A[j][s], s < j < m, and the  *)
(* RowUpdater cells A[r][c], s < r < m and s < c < n; rows 0..s, columns   *)
(* 0..s-1 and every cell in a row >= m or a column >= n are not written.   *)
(***************************************************************************)
StepCells ==
    {Cell(NCU, j, s) : j \in (s + 1)..(m - 1)}
    \cup {Cell(NCU, rc[1], rc[2]) : rc \in ((s + 1)..(m - 1)) \X ((s + 1)..(n - 1))}

Written == wrDiv \cup UNION {wr[i] : i \in 0..(NCU - 1)}

C7Claim == pc \in {"LoopMat", "crashed"} => Written \subseteq StepCells

\* the padding is written even when every index stays in range
C7PaddingKept == (InRange /\ pc = "LoopMat") => Written \subseteq StepCells

\* what holds in range: rows 0..s and columns 0..s-1 are not written
C7InRange ==
    (InRange /\ pc = "LoopMat") =>
        \A x \in Written : x \in DOMAIN matA /\ RowOf(NCU, x) > s /\ ColOf(x) >= s

(***************************************************************************)
(* C8: every pivot entry read during sweep s, by LoopDiv (a00) or by a     *)
(* lane's rowUpdate, was written by LoopPivot earlier in that sweep and    *)
(* equals A[s][c] as it was when the sweep started.                        *)
(***************************************************************************)
C8Claim ==
    pc \in {"LoopDiv", "LoopMat", "crashed"} =>
        \A p \in pivRead :
            /\ p \in pivWritten
            /\ pivot[p] = rowS[p % NCMAX]

\* entries LoopPivot never wrote are read even when every index stays in range
C8AllWritten == (InRange /\ pc \in {"LoopDiv", "LoopMat"}) => pivRead \subseteq pivWritten

\* what holds: the entries of columns s..n-1, all that the returned block uses
C8Used ==
    pc \in {"LoopDiv", "LoopMat"} =>
        \A p \in pivRead :
            (p \in DOMAIN pivot /\ p % NCMAX < n /\ s < n) =>
                (p \in pivWritten /\ pivot[p] = rowS[p % NCMAX])

(***************************************************************************)
(* C9: for 1 <= m <= NRMAX, 1 <= n <= NCMAX and every NCU, every index     *)
(* into matA and pivot used by the load, sweep and store loops is within   *)
(* the declared bounds, and rowUpdate's nrows * ncols is never negative.   *)
(***************************************************************************)
C9Claim == ~oob /\ ~negTrip

C9InRange == InRange => (~oob /\ ~negTrip)

(***************************************************************************)
(* C10: the block written back is determined by (m, n, NCU, input block):  *)
(* no value that depends on uninitialised padding of matA, on a pivot      *)
(* entry LoopPivot did not write, or on memory outside the arrays reaches  *)
(* it.                                                                     *)
(***************************************************************************)
C10Claim == Returned => \A r \in Rows, c \in Cols : Out(r, c) # Indet

C10InRange == (Returned /\ InRange) => \A r \in Rows, c \in Cols : Out(r, c) # Indet

====
